---- MODULE Spec2Model ----
(***************************************************************************)
(* Model of celi_framework.core.monitor.MonitoringAgent: the queue         *)
(* consumer loop process_queue, the evaluation analyze_prompt_completions, *)
(* the audit files written through append_to_file, and stop().             *)
(*                                                                         *)
(* The agent thread is a program counter `pc` walking through the code of  *)
(* process_queue / analyze_prompt_completions; producers (Put) and the     *)
(* caller of stop() (Stop) run concurrently with it.  Calls into           *)
(* collaborators (quick_ask, parse, the codex, the file system) return or  *)
(* raise one of the outcomes their call sites distinguish.                 *)
(***************************************************************************)
EXTENDS Integers, Sequences, FiniteSets, TLC

(* ----------------------------- bounds ---------------------------------- *)
\* number of events the producers put on the update queue in one behaviour
MaxEvents == 2

(* ------------------------ python values -------------------------------- *)
\* Python's None, as str() prints it
None == "None"
PyTrue == "True"
PyFalse == "False"
\* the falsy document: get_document_by_id found nothing
NoDoc == <<>>
\* a truth test that every object passes
TruthyAlways(v) == TRUE

\* a truth test that only None fails, as `if x is not None:`
TruthyUnlessNone(v) == v # None

\* truth value of a Python object in `if x:` / `if not x:`
Truthy(v) == v \notin {None, "", PyFalse}
\* dict.get(key, default)
DictGet(d, k, default) == IF k \in DOMAIN d THEN d[k] ELSE default

(* --------------------------- constants --------------------------------- *)
MODEL_A == "gpt-4-32k"
MODEL_B == "gpt-4-0125-preview"
MODEL_C == "gpt-4-1106-preview"
function_calls_file == "function_calls_log.txt"
prompt_completions_file == "prompt_completions_log.txt"
Streams == {function_calls_file, prompt_completions_file}
NoFile == "closed"

(* ------------------------ the document store --------------------------- *)
\* ids that a doc_save event may carry; "d4" is in no store
DocIds == {"d1", "d2", "d3", "d4"}
\* fields of SecondaryAnalysisReport
ReportFields == {"f1", "f2"}
\* the process_executions collection when the agent is constructed
InitialStore ==
    [d \in {"d1", "d2", "d3"} |->
        CASE d = "d1" -> [k \in {"finish_reason", "prompt_completion", "system_message",
                                 "ongoing_chat", "function_name", "response_msg", "f1"} |->
                            CASE k = "finish_reason" -> "function_call"
                              [] k = "prompt_completion" -> "c1"
                              [] k = "system_message" -> "s1"
                              [] k = "ongoing_chat" -> "h1"
                              [] k = "function_name" -> "fn1"
                              [] k = "response_msg" -> "r1"
                              [] OTHER -> "old"]
          [] d = "d2" -> [k \in {"finish_reason", "prompt_completion", "system_message",
                                 "ongoing_chat", "response_msg", "function_name",
                                 "function_arguments", "prompt_exception"} |->
                            CASE k = "finish_reason" -> "stop"
                              [] k = "prompt_completion" -> "c2"
                              [] k = "system_message" -> "s2"
                              [] k = "ongoing_chat" -> "h2"
                              [] k = "response_msg" -> "r2"
                              [] k = "function_name" -> "fn2"
                              [] k = "function_arguments" -> "args2"
                              [] OTHER -> PyFalse]
          [] OTHER    -> [k \in {"finish_reason", "prompt_completion", "system_message",
                                 "ongoing_chat", "response_msg", "prompt_exception",
                                 "f1", "f2"} |->
                            CASE k = "finish_reason" -> "stop"
                              [] k = "prompt_completion" -> "c3"
                              [] k = "system_message" -> "s3"
                              [] k = "ongoing_chat" -> "h3"
                              [] k = "response_msg" -> "r3"
                              [] k = "prompt_exception" -> PyTrue
                              [] OTHER -> "old"]]

(* ------------------------------ events --------------------------------- *)
NoEvent == [kind |-> "none", payload |-> "none"]
\* what the producers may put on the queue: (update_type, prompt_data) pairs
Events ==
    [kind : {"doc_save"}, payload : DocIds]
      \cup [kind : {"pop_context_triggered", "unknown_kind"}, payload : {"d1"}]

(* -------------------- outcomes of the collaborators -------------------- *)
\* quick_ask: a text, an empty text, ContextLengthExceededException, any other exception
AskOutcomes == {"text", "empty", "size", "other"}
\* open()/file.write(): done, or OSError
IoOutcomes == {"ok", "oserror"}
\* add_or_update_fields_in_document: done, or an exception
UpdateOutcomes == {"ok", "rejected"}
\* values a field of a parsed report can carry
ReportValues == {None, "", "new"}
Reports == [ReportFields -> ReportValues]
NoReport == [f \in ReportFields |-> None]
\* no prompt built yet
NoPrompt == <<>>

(* ------------------- lit_review tools: values -------------------------- *)
\* half seconds the clock of one behaviour runs through
MaxClock == 3
\* longest list of queries passed to retrieve_relevant_literature
MaxQueries == 2

\* datetime.now().strftime("%m%d%y-%H%M%S"): the time cut to whole seconds
Timestamp(now) == now \div 2
\* the names response-{timestamp}.txt the draft directory can hold
DraftNames == {Timestamp(t) : t \in 0..MaxClock}
\* no file of that name
NoDraft == [exists |-> FALSE, content |-> <<>>]

\* a JSON text as its tokens: punctuation, double-quoted and single-quoted strings
Punct(v) == [t |-> "punct", v |-> v]
Dq(v) == [t |-> "dq", v |-> v]
Sq(v) == [t |-> "sq", v |-> v]
\* the strings save_draft is called with
DraftTexts ==
    { <<Punct("{"), Dq("draft"), Punct(":"), Dq("a"), Punct("}")>>,
      <<Punct("{"), Dq("draft"), Punct(":"), Dq("b"), Punct("}")>>,
      <<Punct("{"), Dq("draft"), Punct(":"), Dq("a"), Punct(","),
                    Dq("notes"), Punct(":"), Dq("b"), Punct("}")>>,
      <<Punct("{"), Dq("draft"), Punct(":"), Dq("a"), Punct(","),
                    Dq("draft"), Punct(":"), Dq("b"), Punct("}")>>,
      <<Punct("{"), Punct("}")>>,
      <<Punct("["), Dq("a"), Punct("]")>>,
      <<Punct("{"), Sq("draft"), Punct(":"), Sq("a"), Punct("}")>>,
      <<Punct("{"), Dq("draft"), Punct(":"), Dq("a")>>,
      <<>> }

\* json.JSONDecodeError
JSONDecodeError == [kind |-> "JSONDecodeError"]
\* the text is `{}` or `{` member (`,` member)* `}` with member = "key" : "value"
IsObjectText(toks) ==
    /\ Len(toks) >= 2
    /\ toks[1] = Punct("{")
    /\ toks[Len(toks)] = Punct("}")
    /\ \/ Len(toks) = 2
       \/ /\ Len(toks) % 4 = 1
          /\ \A j \in 1..((Len(toks) - 1) \div 4) :
                /\ toks[4 * j - 2].t = "dq"
                /\ toks[4 * j - 1] = Punct(":")
                /\ toks[4 * j].t = "dq"
                /\ (4 * j + 1 < Len(toks)) => toks[4 * j + 1] = Punct(",")
\* the text is `[]` or `[` "value" `]`
IsArrayText(toks) ==
    /\ Len(toks) \in {2, 3}
    /\ toks[1] = Punct("[")
    /\ toks[Len(toks)] = Punct("]")
    /\ Len(toks) = 3 => toks[2].t = "dq"
\* dict[key] = value on an insertion-ordered dict: a known key keeps its place
DictSet(items, key, value) ==
    IF \E i \in 1..Len(items) : items[i].key = key
    THEN [i \in 1..Len(items) |->
             IF items[i].key = key THEN [key |-> key, value |-> value] ELSE items[i]]
    ELSE Append(items, [key |-> key, value |-> value])
\* the dict of the members j..last of an object text, added to `items`
RECURSIVE MembersFrom(_, _, _)
MembersFrom(toks, j, items) ==
    IF 4 * j > Len(toks) THEN items
    ELSE MembersFrom(toks, j + 1, DictSet(items, toks[4 * j - 2].v, toks[4 * j].v))
\* json.loads
JsonLoads(toks) ==
    IF IsObjectText(toks) THEN [kind |-> "dict", items |-> MembersFrom(toks, 1, <<>>)]
    ELSE IF IsArrayText(toks)
    THEN [kind |-> "list",
          items |-> IF Len(toks) = 3 THEN <<[value |-> toks[2].v]>> ELSE <<>>]
    ELSE JSONDecodeError
\* the members i.. of a dict as tokens
RECURSIVE DumpItems(_, _)
DumpItems(items, i) ==
    IF i > Len(items) THEN <<>>
    ELSE (IF i > 1 THEN <<Punct(",")>> ELSE <<>>)
            \o <<Dq(items[i].key), Punct(":"), Dq(items[i].value)>>
            \o DumpItems(items, i + 1)
\* json.dump
JsonDumps(value) ==
    IF value.kind = "dict"
    THEN <<Punct("{")>> \o DumpItems(value.items, 1) \o <<Punct("}")>>
    ELSE <<Punct("[")>>
            \o (IF value.items = <<>> THEN <<>> ELSE <<Dq(value.items[1].value)>>)
            \o <<Punct("]")>>

\* the search strings of a call
QueryTexts == {"llm agents", "tla"}
RECURSIVE SeqsUpTo(_, _)
SeqsUpTo(S, n) ==
    IF n = 0 THEN {<<>>}
    ELSE SeqsUpTo(S, n - 1) \cup {Append(q, x) : q \in SeqsUpTo(S, n - 1), x \in S}
QueryLists == SeqsUpTo(QueryTexts, MaxQueries)
\* query.replace(" ", "+")
ReplaceSpaces(query) == IF query = "llm agents" THEN "llm+agents" ELSE query
\* the search URL of one query, with the default limit and fields
Url(query) ==
    [query |-> ReplaceSpaces(query), limit |-> 20, fields |-> "title,abstract,venue,year"]
\* what the search service answers to a request
SearchResponse(url) == [kind |-> "response", papers_for |-> url.query]

\* results of a tool call: nothing called yet, Python's None, an exception
NoResult == [kind |-> "none"]
ReturnedNone == [kind |-> "None"]
Raised == [kind |-> "raised"]
NoCall == [fn |-> "none", draft_dict |-> <<>>, queries |-> <<>>, at |-> 0]

VARIABLES
    keep_running,   \* self.keep_running
    update_queue,   \* self.update_queue, a FIFO of events
    store,          \* the process_executions collection behind self.codex
    audit,          \* content of the two audit files, a sequence of records each
    open_file,      \* the audit file currently open for append, or NoFile
    pc,             \* position of the agent thread in process_queue
    cur,            \* (update_type, prompt_data) of the iteration in progress
    doc,            \* local `doc` of analyze_prompt_completions
    model_name,     \* local `model_name`
    response,       \* local `response`
    report,         \* local `secondary_analysis`
    prompt,         \* local `prompt`
    calls,          \* history: models asked in this iteration, in order
    ask_results,    \* history: outcome of each of these calls
    appended,       \* history: audit files appended to in this iteration
    updates,        \* history: store update calls issued in this iteration
    reads,          \* history: store reads issued in this iteration
    logs,           \* history: app_logger levels used in this iteration
    outcome,        \* history: the exit analyze_prompt_completions took
    sent,           \* history: the prompt of each model call of this iteration
    parse_result,   \* history: how parse ended in this iteration
    produced,       \* history: number of events put so far
    stopped_at,     \* history: whether stop() was first called during an evaluation
    files,          \* lit_review tools: the draft directory, file name -> content
    clock,          \* lit_review tools: datetime.now(), in whole seconds
    requests,       \* lit_review tools: history, the URLs requested by the last call
    tool_call,      \* lit_review tools: history, the last call and its argument
    tool_result     \* lit_review tools: history, what the last call returned

monitorVars == <<keep_running, update_queue, store, audit, open_file, pc, cur, doc,
                 model_name, response, report, prompt, calls, ask_results, appended,
                 updates, reads, logs, outcome, sent, parse_result, produced, stopped_at>>
\* the state of the lit_review tools and of their draft directory
toolVars == <<files, clock, requests, tool_call, tool_result>>
\* what no step of the monitoring agent, its producers or stop() touches
sideVars == toolVars

vars == <<monitorVars, sideVars>>

\* everything the agent thread owns
agentVars == <<store, audit, open_file, pc, cur, doc, model_name, response,
               report, prompt, calls, ask_results, appended, updates, reads,
               logs, outcome, sent, parse_result>>
locals == <<doc, model_name, response, report, prompt>>
history == <<calls, ask_results, appended, updates, reads, logs, outcome, sent,
             parse_result>>

Init ==
    /\ keep_running = TRUE
    /\ update_queue = <<>>
    /\ store = InitialStore
    /\ audit = [s \in Streams |-> <<>>]
    /\ open_file = NoFile
    /\ pc = "loop"
    /\ cur = NoEvent
    /\ doc = NoDoc
    /\ model_name = None
    /\ response = None
    /\ report = NoReport
    /\ prompt = NoPrompt
    /\ calls = <<>>
    /\ ask_results = <<>>
    /\ appended = <<>>
    /\ updates = 0
    /\ reads = 0
    /\ logs = {}
    /\ outcome = "none"
    /\ sent = <<>>
    /\ parse_result = "none"
    /\ produced = 0
    /\ stopped_at = "never"
    /\ files = [n \in DraftNames |-> NoDraft]
    /\ clock = 0
    /\ requests = <<>>
    /\ tool_call = NoCall
    /\ tool_result = NoResult


(* ----------------------------- helpers --------------------------------- *)
\* the audit file an evaluation of `d` is logged to
LogFile(d) ==
    IF d["finish_reason"] = "function_call" THEN function_calls_file
    ELSE prompt_completions_file

\* log_content: document id, original completion, evaluation text
LogContent(document_id, d, resp) ==
    [document_id |-> document_id,
     prompt_completion |-> d["prompt_completion"],
     evaluation |-> resp]

\* the first model with `doc.get("prompt_exception", False)`
PrimaryModelDefaultFalse(d) ==
    IF Truthy(DictGet(d, "prompt_exception", PyFalse)) THEN MODEL_A ELSE MODEL_B

\* the model of the first attempt
PrimaryModel(d) ==
    IF Truthy(DictGet(d, "prompt_exception", PyTrue)) THEN MODEL_A ELSE MODEL_B

\* the comprehension without its `if v is not None` filter
NewFieldsAll(rep) == rep

\* {k: v for k, v in vars(secondary_analysis).items() if v is not None}
NewFields(rep) ==
    LET present == {f \in ReportFields : rep[f] # None}
    IN  [f \in present |-> rep[f]]

\* add_or_update_fields_in_document: set the named fields, keep the others
MergeFields(d, new_fields) ==
    [k \in DOMAIN d \cup DOMAIN new_fields |->
        IF k \in DOMAIN new_fields THEN new_fields[k] ELSE d[k]]

(* ------------------------- prompt templates ---------------------------- *)
\* templates.make_prompt_for_function_call_analysis: a prompt holding its inputs
make_prompt_for_function_call_analysis(system_message, ongoing_chat, function_name, function_arguments, prompt_completion) ==
    [template |-> "function_call_analysis",
     system_message |-> system_message,
     ongoing_chat |-> ongoing_chat,
     function_name |-> function_name,
     function_arguments |-> function_arguments,
     prompt_completion |-> prompt_completion]

\* templates.make_prompt_for_secondary_analysis: a prompt holding its inputs
make_prompt_for_secondary_analysis(system_message, ongoing_chat, prompt_completion, response_msg) ==
    [template |-> "secondary_analysis",
     system_message |-> system_message,
     ongoing_chat |-> ongoing_chat,
     prompt_completion |-> prompt_completion,
     response |-> response_msg]

\* the prompt with the function-call template chosen whatever the finish reason
MakePromptAlwaysFunctionCall(d) ==
    make_prompt_for_function_call_analysis(
        d["system_message"], d["ongoing_chat"],
        DictGet(d, "function_name", "Unknown function name"),
        DictGet(d, "function_arguments", "Unknown arguments"),
        d["prompt_completion"])

\* `if doc["finish_reason"] == "function_call": prompt = ... else: prompt = ...`
MakePrompt(d) ==
    IF d["finish_reason"] = "function_call"
    THEN make_prompt_for_function_call_analysis(
             d["system_message"], d["ongoing_chat"],
             DictGet(d, "function_name", "Unknown function name"),
             DictGet(d, "function_arguments", "Unknown arguments"),
             d["prompt_completion"])
    ELSE make_prompt_for_secondary_analysis(
             d["system_message"], d["ongoing_chat"],
             d["prompt_completion"], d["response_msg"])

(* ---------------------- process_queue: the loop ------------------------ *)
\* the locals of analyze_prompt_completions are gone once it is left
DropLocals ==
    /\ doc' = NoDoc
    /\ model_name' = None
    /\ response' = None
    /\ report' = NoReport
    /\ prompt' = NoPrompt

\* the condition of `while self.keep_running:`, with the flag as read
LoopConditionAlways(flag) == TRUE

LoopCondition(flag) == flag

\* `update_type == "doc_save"`
IsDocSaveUnlessPop(update_type) == update_type # "pop_context_triggered"

\* a test that sends pop_context_triggered into the doc_save branch as well
IsDocSaveOrPop(update_type) == update_type \in {"doc_save", "pop_context_triggered"}

IsDocSave(update_type) == update_type = "doc_save"

\* `while self.keep_running:`
LoopCheck ==
    /\ pc = "loop"
    /\ pc' = IF LoopCondition(keep_running) THEN "get" ELSE "returned"
    /\ UNCHANGED <<keep_running, update_queue, store, audit, open_file, cur,
                   locals, history, produced, stopped_at>>
    /\ UNCHANGED sideVars

\* GetNowait on a queue that hands out the newest item first
GetNowaitLifo ==
    /\ pc = "get"
    /\ IF update_queue = <<>>
       THEN /\ pc' = "sleep"
            /\ UNCHANGED <<update_queue, cur, locals, history>>
       ELSE /\ cur' = update_queue[Len(update_queue)]
            /\ update_queue' = SubSeq(update_queue, 1, Len(update_queue) - 1)
            /\ pc' = "dispatch"
            /\ DropLocals
            /\ calls' = <<>>
            /\ ask_results' = <<>>
            /\ appended' = <<>>
            /\ updates' = 0
            /\ reads' = 0
            /\ logs' = {}
            /\ outcome' = "none"
            /\ sent' = <<>>
            /\ parse_result' = "none"
    /\ UNCHANGED <<keep_running, store, audit, open_file, produced, stopped_at>>
    /\ UNCHANGED sideVars

\* `self.update_queue.get_nowait()`: an event, or queue.Empty
GetNowait ==
    /\ pc = "get"
    /\ IF update_queue = <<>>
       THEN /\ pc' = "sleep"
            /\ UNCHANGED <<update_queue, cur, locals, history>>
       ELSE /\ cur' = Head(update_queue)
            /\ update_queue' = Tail(update_queue)
            /\ pc' = "dispatch"
            /\ prompt' = NoPrompt
            /\ sent' = <<>>
            /\ parse_result' = "none"
            /\ doc' = NoDoc
            /\ model_name' = None
            /\ response' = None
            /\ report' = NoReport
            /\ calls' = <<>>
            /\ ask_results' = <<>>
            /\ appended' = <<>>
            /\ updates' = 0
            /\ reads' = 0
            /\ logs' = {}
            /\ outcome' = "none"
    /\ UNCHANGED <<keep_running, store, audit, open_file, produced, stopped_at>>
    /\ UNCHANGED sideVars

\* `except queue.Empty: time.sleep(0.1)`
\* Sleep inside an inner retry loop: the poll is repeated without the flag check
SleepThenPoll ==
    /\ pc = "sleep"
    /\ pc' = "get"
    /\ UNCHANGED <<keep_running, update_queue, store, audit, open_file, cur,
                   locals, history, produced, stopped_at>>
    /\ UNCHANGED sideVars

Sleep ==
    /\ pc = "sleep"
    /\ pc' = "loop"
    /\ UNCHANGED <<keep_running, update_queue, store, audit, open_file, cur,
                   locals, history, produced, stopped_at>>
    /\ UNCHANGED sideVars

\* Dispatch that starts the evaluation without waiting for it
DispatchNoWait ==
    /\ pc = "dispatch"
    /\ logs' = IF IsDocSave(cur.kind) THEN logs \cup {"info"} ELSE logs
    /\ pc' = "loop"
    /\ UNCHANGED <<keep_running, update_queue, store, audit, open_file, cur,
                   locals, calls, ask_results, appended, updates, reads,
                   outcome, sent, parse_result, produced,
                   stopped_at>>
    /\ UNCHANGED sideVars

\* the if / elif on update_type
Dispatch ==
    /\ pc = "dispatch"
    /\ IF IsDocSave(cur.kind)
       THEN /\ logs' = logs \cup {"info"}
            /\ pc' = "fetch"
       ELSE \* pop_context_triggered prints; any other kind matches no branch
            /\ pc' = "loop"
            /\ UNCHANGED logs
    /\ UNCHANGED <<keep_running, update_queue, store, audit, open_file, cur,
                   locals, calls, ask_results, appended, updates, reads,
                   outcome, sent, parse_result, produced,
                   stopped_at>>
    /\ UNCHANGED sideVars

(* ------------- analyze_prompt_completions: the evaluation -------------- *)
\* an exception nobody catches leaves analyze_prompt_completions and, since
\* process_queue only catches queue.Empty, process_queue as well
Propagate ==
    /\ pc' = "raised"
    /\ outcome' = "Raised"
    /\ DropLocals

\* analyze_prompt_completions returns (it returns no value): back in the loop
Return(exit) ==
    /\ pc' = "loop"
    /\ outcome' = exit
    /\ DropLocals

\* `except ContextLengthExceededException` around the first quick_ask
PrimaryCatchesAny(r) == TRUE

PrimaryCatches(r) == r = "size"

\* `except ContextLengthExceededException` around the second quick_ask
FallbackCatches(r) == r = "size"

\* what quick_ask hands back when it returns
ResponseOf(r) == IF r = "text" THEN "evaluation" ELSE ""

\* Fetch without the `return` of the `if not doc:` branch
FetchNoReturn ==
    /\ pc = "fetch"
    /\ reads' = reads + 1
    /\ doc' = IF cur.payload \in DOMAIN store THEN store[cur.payload] ELSE NoDoc
    /\ logs' = IF doc' = NoDoc THEN logs \cup {"error"} ELSE logs
    /\ prompt' = IF doc' = NoDoc THEN NoPrompt ELSE MakePrompt(doc')
    /\ pc' = "ask1"
    /\ UNCHANGED <<keep_running, update_queue, store, audit, open_file, cur,
                   model_name, response, report, calls, ask_results, appended,
                   updates, outcome, sent, parse_result,
                   produced, stopped_at>>
    /\ UNCHANGED sideVars

\* get_document_by_id, `if not doc: ... return`
Fetch ==
    /\ pc = "fetch"
    /\ reads' = reads + 1
    /\ LET found == IF cur.payload \in DOMAIN store THEN store[cur.payload] ELSE NoDoc
       IN  IF found = NoDoc
           THEN /\ logs' = logs \cup {"error"}
                /\ Return("DocumentMissing")
           ELSE /\ doc' = found
                /\ prompt' = MakePrompt(found)
                /\ pc' = "ask1"
                /\ UNCHANGED <<model_name, response, report, logs, outcome>>
    /\ UNCHANGED <<keep_running, update_queue, store, audit, open_file, cur,
                   calls, ask_results, appended, updates, sent, parse_result, produced, stopped_at>>
    /\ UNCHANGED sideVars

\* the first quick_ask, with the model chosen by prompt_exception
Ask1 ==
    /\ pc = "ask1"
    /\ calls' = Append(calls, PrimaryModel(doc))
    /\ sent' = Append(sent, prompt)
    /\ \E r \in AskOutcomes :
         /\ ask_results' = Append(ask_results, r)
         /\ IF r \in {"text", "empty"}
            THEN /\ model_name' = PrimaryModel(doc)
                 /\ response' = ResponseOf(r)
                 /\ pc' = "open"
                 /\ UNCHANGED <<doc, report, prompt, logs, outcome>>
            ELSE IF PrimaryCatches(r)
            THEN /\ model_name' = PrimaryModel(doc)
                 /\ logs' = logs \cup {"info"}
                 /\ pc' = "ask2"
                 /\ UNCHANGED <<doc, response, report, prompt, outcome>>
            ELSE /\ Propagate
                 /\ UNCHANGED logs
    /\ UNCHANGED <<keep_running, update_queue, store, audit, open_file, cur,
                   appended, updates, reads, parse_result,
                   produced, stopped_at>>
    /\ UNCHANGED sideVars

\* the second quick_ask, with the alternative model
Ask2 ==
    /\ pc = "ask2"
    /\ calls' = Append(calls, MODEL_C)
    /\ sent' = Append(sent, prompt)
    /\ \E r \in AskOutcomes :
         /\ ask_results' = Append(ask_results, r)
         /\ IF r \in {"text", "empty"}
            THEN /\ model_name' = MODEL_C
                 /\ response' = ResponseOf(r)
                 /\ pc' = "open"
                 /\ UNCHANGED <<doc, report, prompt, logs, outcome>>
            ELSE IF FallbackCatches(r)
            THEN /\ model_name' = MODEL_C
                 /\ logs' = logs \cup {"error"}
                 /\ response' = None
                 /\ pc' = "open"
                 /\ UNCHANGED <<doc, report, prompt, outcome>>
            ELSE /\ Propagate
                 /\ UNCHANGED logs
    /\ UNCHANGED <<keep_running, update_queue, store, audit, open_file, cur,
                   appended, updates, reads, parse_result,
                   produced, stopped_at>>
    /\ UNCHANGED sideVars

\* `with self.append_to_file(log_file) as file:` entering: open(filename, "a")
OpenFile ==
    /\ pc = "open"
    /\ \E io \in IoOutcomes :
         IF io = "ok"
         THEN /\ open_file' = LogFile(doc)
              /\ pc' = "write"
              /\ UNCHANGED <<locals, outcome>>
         ELSE /\ Propagate
              /\ UNCHANGED open_file
    /\ logs' = logs \cup {"info"}
    /\ UNCHANGED <<keep_running, update_queue, store, audit, cur, calls,
                   ask_results, appended, updates, reads, sent, parse_result, produced, stopped_at>>
    /\ UNCHANGED sideVars

\* WriteFile with the write guarded by `if response:`
WriteFileIfResponse ==
    /\ pc = "write"
    /\ IF Truthy(response)
       THEN /\ audit' = [audit EXCEPT ![open_file] =
                            Append(@, LogContent(cur.payload, doc, response))]
            /\ appended' = Append(appended, open_file)
       ELSE UNCHANGED <<audit, appended>>
    /\ pc' = "close"
    /\ UNCHANGED <<keep_running, update_queue, store, open_file, cur, locals,
                   calls, ask_results, updates, reads, logs, outcome, sent,
                   parse_result, produced, stopped_at>>
    /\ UNCHANGED sideVars

\* WriteFile on a file opened with mode "w": the record replaces the content
WriteFileTruncating ==
    /\ pc = "write"
    /\ \E io \in IoOutcomes :
         IF io = "ok"
         THEN /\ audit' = [audit EXCEPT ![open_file] =
                              <<LogContent(cur.payload, doc, response)>>]
              /\ appended' = Append(appended, open_file)
              /\ pc' = "close"
              /\ UNCHANGED <<open_file, locals, outcome>>
         ELSE /\ open_file' = NoFile
              /\ Propagate
              /\ UNCHANGED <<audit, appended>>
    /\ UNCHANGED <<keep_running, update_queue, store, cur, calls, ask_results,
                   updates, reads, logs, sent, parse_result,
                   produced, stopped_at>>
    /\ UNCHANGED sideVars

\* WriteFile without the with block: a failing write leaves the file open
WriteFileNoRelease ==
    /\ pc = "write"
    /\ \E io \in IoOutcomes :
         IF io = "ok"
         THEN /\ audit' = [audit EXCEPT ![open_file] =
                              Append(@, LogContent(cur.payload, doc, response))]
              /\ appended' = Append(appended, open_file)
              /\ pc' = "close"
              /\ UNCHANGED <<open_file, locals, outcome>>
         ELSE /\ Propagate
              /\ UNCHANGED <<open_file, audit, appended>>
    /\ UNCHANGED <<keep_running, update_queue, store, cur, calls, ask_results,
                   updates, reads, logs, sent, parse_result,
                   produced, stopped_at>>
    /\ UNCHANGED sideVars

\* `file.write(log_content)`; a failing write leaves the with block, which closes the file
WriteFile ==
    /\ pc = "write"
    /\ \E io \in IoOutcomes :
         IF io = "ok"
         THEN /\ audit' = [audit EXCEPT ![open_file] =
                              Append(@, LogContent(cur.payload, doc, response))]
              /\ appended' = Append(appended, open_file)
              /\ pc' = "close"
              /\ UNCHANGED <<open_file, locals, outcome>>
         ELSE /\ open_file' = NoFile
              /\ Propagate
              /\ UNCHANGED <<audit, appended>>
    /\ UNCHANGED <<keep_running, update_queue, store, cur, calls, ask_results,
                   updates, reads, logs, sent, parse_result,
                   produced, stopped_at>>
    /\ UNCHANGED sideVars

\* CloseFile with a file object that is never closed
CloseFileLeavesOpen ==
    /\ pc = "close"
    /\ IF Truthy(response)
       THEN /\ logs' = logs \cup {"info"}
            /\ pc' = "parse"
            /\ UNCHANGED <<locals, outcome>>
       ELSE /\ logs' = logs \cup {"info", "error"}
            /\ Return("ModelUnavailable")
    /\ UNCHANGED <<keep_running, update_queue, store, audit, open_file, cur,
                   calls, ask_results, appended, updates, reads, sent,
                   parse_result, produced, stopped_at>>
    /\ UNCHANGED sideVars

\* leaving the with block closes the file; then `if response: ... else: ...`
CloseFile ==
    /\ pc = "close"
    /\ open_file' = NoFile
    /\ IF Truthy(response)
       THEN /\ logs' = logs \cup {"info"}
            /\ pc' = "parse"
            /\ UNCHANGED <<locals, outcome>>
       ELSE /\ logs' = logs \cup {"info", "error"}
            /\ Return("ModelUnavailable")
    /\ UNCHANGED <<keep_running, update_queue, store, audit, cur, calls,
                   ask_results, appended, updates, reads, sent, parse_result, produced, stopped_at>>
    /\ UNCHANGED sideVars

\* parse(self.parser_factory, target_cls=SecondaryAnalysisReport, msg=response)
Parse ==
    /\ pc = "parse"
    /\ \/ \E rep \in Reports :
            /\ report' = rep
            /\ parse_result' = "ok"
            /\ pc' = "update"
            /\ UNCHANGED <<doc, model_name, response, prompt, outcome>>
       \/ /\ parse_result' = "failed"
          /\ Propagate
    /\ UNCHANGED <<keep_running, update_queue, store, audit, open_file, cur,
                   calls, ask_results, appended, updates, reads, logs, sent, produced, stopped_at>>
    /\ UNCHANGED sideVars

\* Update with a handler that calls the store once more after a rejection
UpdateRetry ==
    /\ pc = "update"
    /\ \E u \in UpdateOutcomes :
         IF u = "ok"
         THEN /\ updates' = updates + 1
              /\ store' = [store EXCEPT ![cur.payload] =
                              MergeFields(@, NewFields(report))]
              /\ logs' = logs \cup {"info"}
              /\ Return("Completed")
         ELSE /\ updates' = updates + 2
              /\ logs' = logs \cup {"info", "error"}
              /\ Return("PersistFailed")
              /\ UNCHANGED store
    /\ UNCHANGED <<keep_running, update_queue, audit, open_file, cur, calls,
                   ask_results, appended, reads, sent, parse_result,
                   produced, stopped_at>>
    /\ UNCHANGED sideVars

\* Update with the merge applied to every document of the collection
UpdateEveryDocument ==
    /\ pc = "update"
    /\ updates' = updates + 1
    /\ \E u \in UpdateOutcomes :
         IF u = "ok"
         THEN /\ store' = [d \in DOMAIN store |-> MergeFields(store[d], NewFields(report))]
              /\ logs' = logs \cup {"info"}
              /\ Return("Completed")
         ELSE /\ logs' = logs \cup {"info", "error"}
              /\ Return("PersistFailed")
              /\ UNCHANGED store
    /\ UNCHANGED <<keep_running, update_queue, audit, open_file, cur, calls,
                   ask_results, appended, reads, sent, parse_result,
                   produced, stopped_at>>
    /\ UNCHANGED sideVars

\* the try block: add_or_update_fields_in_document, `except Exception`
Update ==
    /\ pc = "update"
    /\ updates' = updates + 1
    /\ \E u \in UpdateOutcomes :
         IF u = "ok"
         THEN /\ store' = [store EXCEPT ![cur.payload] =
                              MergeFields(@, NewFields(report))]
              /\ logs' = logs \cup {"info"}
              /\ Return("Completed")
         ELSE /\ logs' = logs \cup {"info", "error"}
              /\ Return("PersistFailed")
              /\ UNCHANGED store
    /\ UNCHANGED <<keep_running, update_queue, audit, open_file, cur, calls,
                   ask_results, appended, reads, sent, parse_result,
                   produced, stopped_at>>
    /\ UNCHANGED sideVars

(* --------------------------- other threads ----------------------------- *)
\* where the agent thread is: inside analyze_prompt_completions, or in the loop
Position ==
    IF pc \in {"fetch", "ask1", "ask2", "open", "write", "close", "parse", "update"}
    THEN "in_evaluation" ELSE "in_loop"

\* a stop() that also abandons the iteration in progress
StopCancels ==
    /\ keep_running' = FALSE
    /\ stopped_at' = IF keep_running THEN Position ELSE stopped_at
    /\ pc' = IF pc = "raised" THEN pc ELSE "returned"
    /\ UNCHANGED <<update_queue, store, audit, open_file, cur, locals, history, produced>>
    /\ UNCHANGED sideVars

\* stop(): `self.keep_running = False`
Stop ==
    /\ keep_running' = FALSE
    /\ stopped_at' = IF keep_running THEN Position ELSE stopped_at
    /\ UNCHANGED <<update_queue, agentVars, produced>>
    /\ UNCHANGED sideVars

\* a producer: update_queue.put((update_type, prompt_data))
Put ==
    /\ produced < MaxEvents
    /\ \E e \in Events : update_queue' = Append(update_queue, e)
    /\ produced' = produced + 1
    /\ UNCHANGED <<keep_running, agentVars, stopped_at>>
    /\ UNCHANGED sideVars

\* process_queue is called once more on the same agent after it returned
CallAgain ==
    /\ pc = "returned"
    /\ pc' = "loop"
    /\ UNCHANGED <<keep_running, update_queue, store, audit, open_file, cur,
                   locals, history, produced, stopped_at>>
    /\ UNCHANGED sideVars

(* --------------------------- specification ----------------------------- *)
\* one step of the thread that runs process_queue
Agent ==
    \/ LoopCheck
    \/ GetNowait
    \/ Sleep
    \/ Dispatch
    \/ Fetch
    \/ Ask1
    \/ Ask2
    \/ OpenFile
    \/ WriteFile
    \/ CloseFile
    \/ Parse
    \/ Update

Next == Agent \/ Stop \/ Put \/ CallAgain

Spec == Init /\ [][Next]_vars

\* the thread running process_queue is scheduled again and again, and every
\* call it makes returns or raises
FairSpec == Spec /\ WF_vars(Agent)

(* ---------------------- lit_review tools: calls ------------------------ *)
\* save_draft that opens its output file before it decodes the text
SaveDraftOpensFirst ==
    /\ \E draft_dict \in DraftTexts, io \in IoOutcomes :
         LET timestamp == Timestamp(clock)
             structured_dict == JsonLoads(draft_dict)
         IN  /\ tool_call' = [fn |-> "save_draft", draft_dict |-> draft_dict,
                              queries |-> <<>>, at |-> clock]
             /\ IF structured_dict.kind = "JSONDecodeError"
                THEN /\ files' = [files EXCEPT ![timestamp] =
                                     [exists |-> TRUE, content |-> <<>>]]
                     /\ tool_result' = ReturnedNone
                ELSE IF io = "ok"
                THEN /\ files' = [files EXCEPT ![timestamp] =
                                     [exists |-> TRUE, content |-> JsonDumps(structured_dict)]]
                     /\ tool_result' = structured_dict
                ELSE /\ files' = [files EXCEPT ![timestamp] =
                                     [exists |-> TRUE, content |-> <<>>]]
                     /\ tool_result' = Raised
    /\ requests' = <<>>
    /\ UNCHANGED <<clock, monitorVars>>

\* save_draft: decode, return None on JSONDecodeError, else write the file
\* response-{timestamp}.txt with mode "w" and return the decoded value
SaveDraft ==
    /\ \E draft_dict \in DraftTexts, io \in IoOutcomes :
         LET timestamp == Timestamp(clock)
             structured_dict == JsonLoads(draft_dict)
         IN  /\ tool_call' = [fn |-> "save_draft", draft_dict |-> draft_dict,
                              queries |-> <<>>, at |-> clock]
             /\ IF structured_dict.kind = "JSONDecodeError"
                THEN /\ files' = files
                     /\ tool_result' = ReturnedNone
                ELSE IF io = "ok"
                THEN /\ files' = [files EXCEPT ![timestamp] =
                                     [exists |-> TRUE, content |-> JsonDumps(structured_dict)]]
                     /\ tool_result' = structured_dict
                ELSE \* OSError in makedirs, open or the write: the file is
                     \* untouched, or created / truncated and left empty
                     /\ files' \in {files,
                                    [files EXCEPT ![timestamp] =
                                        [exists |-> TRUE, content |-> <<>>]]}
                     /\ tool_result' = Raised
    /\ requests' = <<>>
    /\ UNCHANGED <<clock, monitorVars>>

\* retrieve_relevant_literature: one request per query in the loop, one more
\* request of the last URL after it, whose JSON is returned; with no query
\* the name `url` is unbound after the loop
RetrieveRelevantLiterature ==
    /\ \E queries \in QueryLists :
         /\ tool_call' = [fn |-> "retrieve_relevant_literature", draft_dict |-> <<>>,
                          queries |-> queries, at |-> clock]
         /\ IF queries = <<>>
            THEN /\ requests' = <<>>
                 /\ tool_result' = Raised
            ELSE LET urls == [i \in 1..Len(queries) |-> Url(queries[i])]
                 IN  /\ requests' = Append(urls, urls[Len(urls)])
                     /\ tool_result' = SearchResponse(urls[Len(urls)])
    /\ UNCHANGED <<files, clock, monitorVars>>

\* time passes between two calls
Tick ==
    /\ clock < MaxClock
    /\ clock' = clock + 1
    /\ UNCHANGED <<files, requests, tool_call, tool_result, monitorVars>>

ToolsNext == SaveDraft \/ RetrieveRelevantLiterature \/ Tick

\* the tools called one after the other, in any order, as time passes
ToolsSpec == Init /\ [][ToolsNext]_vars

(* ============================ properties =============================== *)
\* the iteration in progress, or the last one, handles a doc_save event
IsEvaluation == cur.kind = "doc_save"
\* the exits of analyze_prompt_completions that return to the loop
ReturnedOutcomes == {"DocumentMissing", "ModelUnavailable", "Completed", "PersistFailed"}
\* the audit file the finish reason of the fetched document selects
ExpectedStream ==
    IF store[cur.payload]["finish_reason"] = "function_call"
    THEN "function_calls_log.txt" ELSE "prompt_completions_log.txt"
\* the last model call of this iteration failed with an error other than a size limit
LastCallOtherError ==
    /\ ask_results # <<>>
    /\ ask_results[Len(ask_results)] = "other"
BothSizeLimited == ask_results = <<"size", "size">>
\* positions of the agent thread between two iterations, or after a return
BetweenIterations == pc \in {"loop", "get", "sleep", "returned"}
\* positions of the agent thread inside analyze_prompt_completions
InEvaluation ==
    pc \in {"fetch", "ask1", "ask2", "open", "write", "close", "parse", "update"}

\* C1: no evaluation failure terminates the monitoring loop: whatever way an
\* evaluation fails, no exception leaves process_queue, so the loop goes on
\* to the later events.
C1_LoopSurvivesFailures == pc # "raised"

\* C2: for every doc_save event whose document exists, once its processing
\* has ended exactly one audit record has been appended, to the stream that
\* matches the finish reason, and the other stream was not written.
C2_ExactlyOneAppend ==
    (IsEvaluation /\ cur.payload \in DOMAIN store /\ outcome # "none")
        => appended = <<ExpectedStream>>

\* C3: the fallback model is called exactly once after a size-limit failure
\* of the primary call and only then; a second size-limit failure ends the
\* chain with no response; at most two model calls per evaluation, and none
\* after a primary call that succeeded.
C3_FallbackChain ==
    /\ Len(calls) <= 2
    /\ Len(ask_results) = Len(calls)
    /\ Len(calls) = 2 =>
          /\ ask_results[1] = "size"
          /\ calls[2] = "gpt-4-1106-preview"
          /\ calls[1] # calls[2]
    /\ (Len(calls) = 1 /\ pc # "ask2") => ask_results[1] # "size"
    /\ (Len(calls) = 1 /\ pc = "ask2") => ask_results[1] = "size"
    /\ BothSizeLimited => (response = "None" /\ pc \notin {"ask1", "ask2", "parse", "update"})
    /\ pc = "ask1" => calls = <<>>

C3_Witness ==
    /\ BothSizeLimited
    /\ outcome = "ModelUnavailable"

\* C4 as stated: when both model calls fail with a size-limit error the
\* evaluation ends as ModelUnavailable having made no audit append and no
\* store update.
C4_NoAppendWhenBothSizeLimited ==
    BothSizeLimited =>
        /\ appended = <<>>
        /\ updates = 0
        /\ outcome \in {"none", "ModelUnavailable", "Raised"}

\* C4 amended: when both model calls fail with a size-limit error the
\* evaluation makes no parse and no store update, and it ends as
\* ModelUnavailable only after it has appended exactly one audit record, with
\* the evaluation text None, to the stream matching the finish reason.
C4_AppendsNoneWhenBothSizeLimited ==
    BothSizeLimited =>
        /\ updates = 0
        /\ response = "None"
        /\ pc \notin {"parse", "update"}
        /\ Len(appended) <= 1
        /\ outcome \in {"none", "ModelUnavailable", "Raised"}
        /\ outcome = "ModelUnavailable" =>
              /\ appended = <<ExpectedStream>>
              /\ audit[ExpectedStream] # <<>>
              /\ audit[ExpectedStream][Len(audit[ExpectedStream])] =
                    [document_id |-> cur.payload,
                     prompt_completion |-> store[cur.payload]["prompt_completion"],
                     evaluation |-> "None"]

C4_Witness ==
    /\ BothSizeLimited
    /\ outcome = "ModelUnavailable"
    /\ appended # <<>>
    /\ pc = "loop"

\* C5: a doc_save event whose document is not in the store ends as
\* DocumentMissing after an error was logged, with no model call, no audit
\* append and no store update; store and audit streams are left as they were.
C5_MissingState ==
    (IsEvaluation /\ cur.payload \notin DOMAIN store /\ pc \notin {"dispatch", "fetch"})
        => /\ outcome = "DocumentMissing"
           /\ "error" \in logs
           /\ reads = 1
           /\ calls = <<>>
           /\ appended = <<>>
           /\ updates = 0
           /\ open_file = NoFile
           /\ BetweenIterations

C5_MissingStep ==
    (IsEvaluation /\ cur.payload \notin DOMAIN store /\ cur' = cur)
        => (store' = store /\ audit' = audit)

C5_DocumentMissing == [](C5_MissingState) /\ [][C5_MissingStep]_vars

C5_Witness ==
    /\ IsEvaluation
    /\ cur.payload \notin DOMAIN store
    /\ outcome = "DocumentMissing"
    /\ audit["prompt_completions_log.txt"] # <<>>

\* C6: a model call failing with an error other than a size limit is not
\* retried; the evaluation ends as ModelUnavailable, without a store update
\* and without raising out of the evaluation.
C6_OtherErrorIsModelUnavailable ==
    LastCallOtherError =>
        /\ pc # "raised"
        /\ outcome \in {"none", "ModelUnavailable"}
        /\ updates = 0

\* the event of this iteration has a kind process_queue has no branch for
UnknownKind == cur.kind \notin {"none", "doc_save", "pop_context_triggered"}

\* C7: an event of an unknown kind is ignored: no store read, no model call,
\* no audit append, no store write; handling it takes the loop back to its
\* head, without an exception, with the queue behind it untouched, and the
\* loop then reaches its next poll (or returns, if stop() was called).
C7_UnknownState ==
    UnknownKind =>
        /\ reads = 0
        /\ calls = <<>>
        /\ appended = <<>>
        /\ updates = 0
        /\ outcome = "none"
        /\ open_file = NoFile
        /\ pc \in {"dispatch", "loop", "get", "sleep", "returned"}

C7_UnknownStep ==
    (UnknownKind /\ pc = "dispatch" /\ pc' # pc)
        => /\ pc' = "loop"
           /\ UNCHANGED <<store, audit, update_queue, keep_running>>

C7_UnknownIgnored ==
    /\ [](C7_UnknownState)
    /\ [][C7_UnknownStep]_vars
    /\ (UnknownKind /\ pc = "dispatch") ~> (pc \in {"get", "returned"})

C7_Witness ==
    /\ UnknownKind
    /\ pc = "get"
    /\ keep_running
    /\ update_queue # <<>>

\* C8: once stop() has been invoked, process_queue eventually ends: the
\* iteration in progress is finished and the loop exits at the next check of
\* the flag (every call of the iteration returning or raising).
C8_StopTerminates == (~keep_running) ~> (pc \in {"returned", "raised"})

C8_Witness ==
    /\ pc = "returned"
    /\ stopped_at = "in_evaluation"

\* C9: stop() does not preempt an evaluation in progress: it changes nothing
\* but the flag, the loop returns only from the check at its head, an
\* evaluation under way when stop() is called runs to one of its exits, and
\* at the return the last evaluation has made its audit append and its store
\* update.
C9_ReturnState ==
    pc = "returned" =>
        /\ ~keep_running
        /\ open_file = NoFile
        /\ IsEvaluation => outcome \in ReturnedOutcomes
        /\ outcome \in {"ModelUnavailable", "PersistFailed", "Completed"}
              => Len(appended) = 1
        /\ outcome \in {"PersistFailed", "Completed"} => updates = 1

C9_StopStep == (keep_running /\ ~keep_running') => UNCHANGED agentVars

C9_ReturnStep == (pc # "returned" /\ pc' = "returned") => pc = "loop"

C9_StopDoesNotPreempt ==
    /\ [](C9_ReturnState)
    /\ [][C9_StopStep]_vars
    /\ [][C9_ReturnStep]_vars
    /\ (InEvaluation /\ ~keep_running) ~> (~InEvaluation /\ outcome # "none")

C9_Witness ==
    /\ pc = "returned"
    /\ stopped_at = "in_evaluation"
    /\ outcome = "Completed"
    /\ updates = 1

\* C10: process_queue does not end as long as stop() has not been invoked:
\* neither an empty queue nor the processing of an event of any kind makes
\* it leave the loop.
C10_RunsUntilStopped == pc \in {"returned", "raised"} => ~keep_running

\* the evaluation changes something outside its locals in this step
EvaluationEffect ==
    \/ store' # store
    \/ audit' # audit
    \/ open_file' # open_file
    \/ calls' # calls /\ calls' # <<>>
    \/ updates' > updates
    \/ reads' > reads
\* the step that takes an event from the queue
Dequeues == pc = "get" /\ pc' = "dispatch"
\* number of events taken from the queue so far
Taken == produced - Len(update_queue)

\* C11: at most one evaluation runs at a time: an event is dequeued only at
\* the poll of the loop, when the evaluation of the previous doc_save event
\* has run to one of its exits and closed its file; every store read, model
\* call, audit write and store write is a step of the evaluation of the one
\* event dequeued last, whatever the producers put on the queue meanwhile.
C11_OneAtATimeState ==
    InEvaluation =>
        /\ IsEvaluation
        /\ Taken >= 1
        /\ outcome = "none"

C11_DequeueStep ==
    (cur' # cur \/ Len(update_queue') < Len(update_queue)) =>
        /\ Dequeues
        /\ open_file = NoFile
        /\ IsEvaluation => outcome \in ReturnedOutcomes
        /\ Len(update_queue') = Len(update_queue) - 1

C11_EffectStep ==
    EvaluationEffect =>
        /\ InEvaluation
        /\ cur' = cur
        /\ update_queue' = update_queue
        /\ \A s \in {"function_calls_log.txt", "prompt_completions_log.txt"} :
              audit'[s] # audit[s] =>
                  /\ Len(audit'[s]) = Len(audit[s]) + 1
                  /\ audit'[s][Len(audit'[s])].document_id = cur.payload
        /\ \A d \in DOMAIN store : store'[d] # store[d] => d = cur.payload

C11_OneEvaluationAtATime ==
    /\ [](C11_OneAtATimeState)
    /\ [][C11_DequeueStep]_vars
    /\ [][C11_EffectStep]_vars

C11_Witness ==
    /\ pc = "write"
    /\ update_queue # <<>>
    /\ Head(update_queue).kind = "doc_save"
    /\ Head(update_queue).payload # cur.payload

\* the document ids of the records of an audit stream, in file order
RecordIds(s) == [i \in 1..Len(audit[s]) |-> audit[s][i].document_id]

\* C12: with producers putting events concurrently, no event is lost or
\* duplicated and events leave the queue in the order they were put: a put
\* appends behind the events already waiting and removes none; the consumer
\* takes the oldest waiting event, and only that one, in the same step in
\* which it becomes the event in progress; nothing else changes the queue;
\* there are never more audit records than events taken.
C12_QueueStep ==
    (update_queue' # update_queue) =>
        \/ /\ Len(update_queue') = Len(update_queue) + 1
           /\ SubSeq(update_queue', 1, Len(update_queue)) = update_queue
           /\ produced' = produced + 1
           /\ cur' = cur
        \/ /\ Dequeues
           /\ update_queue # <<>>
           /\ cur' = update_queue[1]
           /\ update_queue' = SubSeq(update_queue, 2, Len(update_queue))
           /\ produced' = produced

C12_TakeStep ==
    (Dequeues \/ cur' # cur \/ produced' # produced) => (update_queue' # update_queue)

C12_Counts ==
    /\ Len(update_queue) <= produced
    /\ (cur = NoEvent) <=> (Taken = 0)
    /\ Len(audit["function_calls_log.txt"]) + Len(audit["prompt_completions_log.txt"])
           <= Taken

C12_FifoExactlyOnce ==
    /\ [](C12_Counts)
    /\ [][C12_QueueStep]_vars
    /\ [][C12_TakeStep]_vars

\* d3 was put before d2, both were taken and audited, in that order
C12_Witness ==
    /\ RecordIds("prompt_completions_log.txt") = <<"d3", "d2">>
    /\ cur = [kind |-> "doc_save", payload |-> "d2"]
    /\ update_queue = <<>>
    /\ produced = 2

\* C13: the store update of an evaluation is a merge of only the report's
\* non-absent fields: the successful update step sets exactly the report
\* fields whose value is not None on the document of the event, every other
\* field of that document keeps its previous value, no field is removed, and
\* no other document and no other step changes the store.
C13_MergeStep ==
    (updates' = updates + 1 /\ outcome' = "Completed") =>
        LET d == cur.payload
            present == {f \in {"f1", "f2"} : report[f] # "None"}
        IN  /\ DOMAIN store' = DOMAIN store
            /\ DOMAIN store'[d] = DOMAIN store[d] \cup present
            /\ \A k \in DOMAIN store'[d] :
                 store'[d][k] = IF k \in present THEN report[k] ELSE store[d][k]
            /\ \A o \in DOMAIN store \ {d} : store'[o] = store[o]

C13_FrameStep ==
    (store' # store) => (pc = "update" /\ updates' = updates + 1 /\ outcome' = "Completed")

C13_MergeOnlyPresent == [][C13_MergeStep /\ C13_FrameStep]_vars

\* an evaluation of d3 whose report carried f1 and left f2 absent
C13_Witness ==
    /\ outcome = "Completed"
    /\ cur.payload = "d3"
    /\ store["d3"]["f1"] = "new"
    /\ store["d3"]["f2"] = "old"

\* C14: a report field that carries a null or an empty value is omitted from
\* the merged fields, so no evaluation ever blanks a field of a stored
\* document: no stored field is empty or None.
C14_NeverBlanks ==
    \A d \in DOMAIN store : \A k \in DOMAIN store[d] : store[d][k] \notin {"", "None"}

\* the audit stream of the event in progress holds a record of its document
AuditRecordPresent ==
    \E i \in 1..Len(audit[ExpectedStream]) :
        audit[ExpectedStream][i].document_id = cur.payload
\* the last model call of this iteration returned a non-empty text
LastCallReturnedText ==
    /\ ask_results # <<>>
    /\ ask_results[Len(ask_results)] = "text"

\* C15: when the model returned a text and parsing it fails, the evaluation
\* handles the failure itself: the raw text is already in the audit log, no
\* store update is issued, and nothing is raised to the caller.
C15_ParseFailureHandled ==
    parse_result = "failed" =>
        /\ AuditRecordPresent
        /\ updates = 0
        /\ pc # "raised"
        /\ outcome # "Raised"

\* C16: when the store rejects the merge-update, the failure is logged, the
\* update was called once and is not called again, the audit record of the
\* evaluation is in the log and stays there, and the evaluation returns to
\* the loop, which goes on polling.
C16_RejectedState ==
    outcome = "PersistFailed" =>
        /\ "error" \in logs
        /\ updates = 1
        /\ appended = <<ExpectedStream>>
        /\ AuditRecordPresent
        /\ open_file = NoFile
        /\ BetweenIterations

C16_UpdateStep ==
    (updates' # updates /\ pc = "update") =>
        /\ updates' = updates + 1
        /\ pc' = "loop"
        /\ outcome' \in {"Completed", "PersistFailed"}
        /\ audit' = audit
        /\ (outcome' = "PersistFailed" => store' = store)

C16_PersistFailed == [](C16_RejectedState) /\ [][C16_UpdateStep]_vars

\* the update was rejected, the loop is polling again and an event is waiting
C16_Witness ==
    /\ outcome = "PersistFailed"
    /\ pc = "get"
    /\ update_queue # <<>>

\* C17: a processed doc_save event causes at most one store update call:
\* exactly one once a model call returned a text and the parse succeeded,
\* none as long as no response text was obtained.
C17_AtMostOneUpdate ==
    /\ updates <= 1
    /\ updates = 1 => (IsEvaluation /\ LastCallReturnedText /\ parse_result = "ok")
    /\ parse_result = "ok" => (LastCallReturnedText /\ (updates = 1 \/ pc = "update"))
    /\ ~LastCallReturnedText => updates = 0

\* one update after the fallback model returned the text
C17_Witness ==
    /\ updates = 1
    /\ outcome = "Completed"
    /\ ask_results = <<"size", "text">>

\* C18: the audit append precedes the store update: whenever the update is
\* about to be issued or has been issued, the audit record of the same
\* evaluation has been appended to the matching stream and the file closed.
C18_AuditBeforeUpdate ==
    (pc = "update" \/ updates > 0) =>
        /\ appended = <<ExpectedStream>>
        /\ AuditRecordPresent
        /\ open_file = NoFile

C18_Witness ==
    /\ pc = "update"
    /\ cur.payload = "d1"
    /\ appended = <<"function_calls_log.txt">>
    /\ updates = 0

\* C19: the first model call uses gpt-4-32k when prompt_exception is true or
\* absent and gpt-4-0125-preview when it is false; the second call, made only
\* after a size-limit failure of the first, always uses gpt-4-1106-preview.
C19_ModelSelection ==
    calls # <<>> =>
        LET d == store[cur.payload]
        IN  /\ calls[1] = IF "prompt_exception" \in DOMAIN d /\ d["prompt_exception"] = "False"
                          THEN "gpt-4-0125-preview" ELSE "gpt-4-32k"
            /\ Len(calls) <= 2
            /\ Len(calls) = 2 =>
                 (calls[2] = "gpt-4-1106-preview" /\ ask_results[1] = "size")

\* d1 carries no prompt_exception: primary A, then the fallback
C19_Witness ==
    /\ cur.payload = "d1"
    /\ calls = <<"gpt-4-32k", "gpt-4-1106-preview">>

\* C20: every model call of an evaluation is sent the prompt of the template
\* the finish reason selects: for function_call the function name and
\* arguments (with their defaults) are inputs and the response message is
\* not; otherwise the response message is an input and function name and
\* arguments are not; the fallback call gets the same prompt as the primary.
C20_PromptByFinishReason ==
    /\ Len(sent) = Len(calls)
    /\ \A i \in 1..Len(sent) :
         LET d == store[cur.payload]
         IN  IF d["finish_reason"] = "function_call"
             THEN /\ sent[i] =
                       [template |-> "function_call_analysis",
                        system_message |-> d["system_message"],
                        ongoing_chat |-> d["ongoing_chat"],
                        function_name |->
                            IF "function_name" \in DOMAIN d
                            THEN d["function_name"] ELSE "Unknown function name",
                        function_arguments |->
                            IF "function_arguments" \in DOMAIN d
                            THEN d["function_arguments"] ELSE "Unknown arguments",
                        prompt_completion |-> d["prompt_completion"]]
                  /\ "response" \notin DOMAIN sent[i]
             ELSE /\ sent[i] =
                       [template |-> "secondary_analysis",
                        system_message |-> d["system_message"],
                        ongoing_chat |-> d["ongoing_chat"],
                        prompt_completion |-> d["prompt_completion"],
                        response |-> d["response_msg"]]
                  /\ {"function_name", "function_arguments"} \cap DOMAIN sent[i] = {}
    /\ Len(sent) = 2 => sent[1] = sent[2]

\* d2 is not a function call but records a function name: two calls were made
C20_Witness ==
    /\ cur.payload = "d2"
    /\ Len(sent) = 2
    /\ sent[2].response = "r2"

\* the event in progress, or the last one, is a pop_context_triggered
PopContext == cur.kind = "pop_context_triggered"

\* C21: a pop_context_triggered event is a no-op: handling it reads no
\* document, calls no model, appends to no audit stream, writes nothing to
\* the store, logs nothing, raises nothing, and goes back to the head of the
\* loop with the running flag, the queue and every stored document (also the
\* one its payload names) as they were.
C21_PopState ==
    PopContext =>
        /\ reads = 0
        /\ calls = <<>>
        /\ appended = <<>>
        /\ updates = 0
        /\ logs = {}
        /\ outcome = "none"
        /\ open_file = NoFile
        /\ pc \in {"dispatch", "loop", "get", "sleep", "returned"}

C21_PopStep ==
    (PopContext /\ pc = "dispatch" /\ pc' # pc) =>
        /\ pc' = "loop"
        /\ UNCHANGED <<store, audit, update_queue, keep_running, cur>>

C21_PopContextNoOp == [](C21_PopState) /\ [][C21_PopStep]_vars

\* the event was handled and the loop polls again; its payload d1 is stored
C21_Witness ==
    /\ PopContext
    /\ pc = "get"
    /\ cur.payload \in DOMAIN store

\* C22: the audit log is append-only: every step leaves each stream as it
\* was or extends it at the end by exactly one record made of the document
\* id, the original completion and the evaluation text of the event in
\* progress; no record is changed, reordered or deleted, and a step extends
\* at most one stream.
C22_AppendStep ==
    /\ \A s \in {"function_calls_log.txt", "prompt_completions_log.txt"} :
         \/ audit'[s] = audit[s]
         \/ /\ Len(audit'[s]) = Len(audit[s]) + 1
            /\ SubSeq(audit'[s], 1, Len(audit[s])) = audit[s]
            /\ LET rec == audit'[s][Len(audit'[s])]
               IN  /\ DOMAIN rec = {"document_id", "prompt_completion", "evaluation"}
                   /\ rec.document_id = cur.payload
                   /\ rec.prompt_completion = store[cur.payload]["prompt_completion"]
                   /\ rec.evaluation = response
    /\ \/ audit'["function_calls_log.txt"] = audit["function_calls_log.txt"]
       \/ audit'["prompt_completions_log.txt"] = audit["prompt_completions_log.txt"]

C22_AppendOnly == [][C22_AppendStep]_vars

\* the function-call stream holds two records
C22_Witness == Len(audit["function_calls_log.txt"]) = 2

\* C23: every audit append is a scoped open-append-close: a file is open
\* exactly while the agent is between the open and the end of the with
\* block; no file is open during a store read, a model call, the parse or
\* the store update, nor after the write raised.
C23_ScopedOpen ==
    /\ (open_file # NoFile) <=> (pc \in {"write", "close"})
    /\ open_file # NoFile => open_file = ExpectedStream

C23_Witness ==
    /\ pc = "write"
    /\ open_file = "prompt_completions_log.txt"

\* C25: no event is dropped silently: once an event of an unknown kind has
\* been handled a warning has been logged for it, and once an evaluation has
\* ended otherwise than completed (document missing, no model response, an
\* exception, a rejected update) an error has been logged for it.
C25_NoSilentDrop ==
    /\ (UnknownKind /\ pc \in {"loop", "get", "sleep", "returned"}) => "warning" \in logs
    /\ (IsEvaluation /\ outcome \in {"DocumentMissing", "ModelUnavailable",
                                     "PersistFailed", "Raised"}) => "error" \in logs

\* the last model call of this iteration returned an empty text
LastCallReturnedEmpty ==
    /\ ask_results # <<>>
    /\ ask_results[Len(ask_results)] = "empty"

\* C28: an empty response is handled as no response: no parse and no store
\* update are made for it, and the evaluation that returns after it has
\* logged an error and appended its audit record, whose evaluation text is
\* empty.  In general every evaluation that got past the audit write, with a
\* response or without, has appended exactly one record to the stream of its
\* finish reason, while parse and store update happen only after a call
\* returned a non-empty text.
C28_EmptyIsNoResponse ==
    /\ LastCallReturnedEmpty =>
          /\ parse_result = "none"
          /\ updates = 0
          /\ pc \notin {"parse", "update"}
          /\ outcome \in {"none", "ModelUnavailable", "Raised"}
          /\ outcome = "ModelUnavailable" =>
                /\ "error" \in logs
                /\ appended = <<ExpectedStream>>
                /\ audit[ExpectedStream][Len(audit[ExpectedStream])] =
                       [document_id |-> cur.payload,
                        prompt_completion |-> store[cur.payload]["prompt_completion"],
                        evaluation |-> ""]
    /\ (pc \in {"close", "parse", "update"}
          \/ outcome \in {"ModelUnavailable", "Completed", "PersistFailed"})
          => appended = <<ExpectedStream>>
    /\ (pc \in {"parse", "update"} \/ parse_result # "none" \/ updates > 0)
          => (ask_results # <<>> /\ ask_results[Len(ask_results)] = "text")

\* the primary model returned an empty text and the evaluation returned
C28_Witness ==
    /\ ask_results = <<"empty">>
    /\ outcome = "ModelUnavailable"
    /\ Len(audit[ExpectedStream]) = 1

\* C29: after stop() the running flag is never set back to true; the poll is
\* not entered again, so at most the one iteration that had already passed
\* the flag check takes a further event; outside that poll nothing is taken
\* from the queue, and a call of process_queue that finds the flag false
\* returns at its first check without consuming anything.
C29_FlagStep == ~keep_running => ~keep_running'

C29_NoReentry == (~keep_running /\ pc # "get") => pc' # "get"

C29_QueueKept ==
    (~keep_running /\ pc # "get") =>
        /\ Len(update_queue') >= Len(update_queue)
        /\ SubSeq(update_queue', 1, Len(update_queue)) = update_queue
        /\ cur' = cur

C29_PollStep ==
    (~keep_running /\ pc = "get" /\ pc' # pc) =>
        /\ pc' \in {"dispatch", "sleep"}
        /\ Len(update_queue') >= Len(update_queue) - 1

C29_CheckStep == (~keep_running /\ pc = "loop" /\ pc' # pc) => pc' = "returned"

C29_AfterStop ==
    [][C29_FlagStep /\ C29_NoReentry /\ C29_QueueKept /\ C29_PollStep /\ C29_CheckStep]_vars

\* process_queue has returned after stop() and events are still queued
C29_Witness ==
    /\ ~keep_running
    /\ pc = "returned"
    /\ stopped_at = "in_loop"
    /\ Len(update_queue) = 2

\* C30: the evaluation of doc_save(d) touches only document d: the one store
\* read of an evaluation returns the document of the payload, only the update
\* step of a doc_save event changes the store and it changes that document
\* alone, no document is added or removed, and as long as at most one event
\* was taken every other document is as it was at construction.
C30_StoreStep ==
    /\ DOMAIN store' = DOMAIN store
    /\ \A d \in DOMAIN store :
          store'[d] # store[d] =>
              (d = cur.payload /\ cur.kind = "doc_save" /\ pc = "update" /\ cur' = cur)

C30_ReadStep ==
    (reads' # reads /\ reads' # 0) =>
        /\ cur.kind = "doc_save"
        /\ pc = "fetch"
        /\ reads' = 1
        /\ IF cur.payload \in DOMAIN store
           THEN doc' = store[cur.payload] /\ pc' = "ask1"
           ELSE doc' = <<>> /\ pc' = "loop"

C30_Untouched ==
    Taken <= 1 =>
        \A d \in DOMAIN store :
            (cur.kind # "doc_save" \/ d # cur.payload) => store[d] = InitialStore[d]

C30_OnlyItsDocument ==
    /\ [](C30_Untouched)
    /\ [][C30_StoreStep]_vars
    /\ [][C30_ReadStep]_vars

\* d1 was evaluated and updated; d2 and d3 are as constructed
C30_Witness ==
    /\ outcome = "Completed"
    /\ cur = [kind |-> "doc_save", payload |-> "d1"]
    /\ store["d1"]["f1"] = "new"
    /\ store["d2"] = InitialStore["d2"]
    /\ store["d3"] = InitialStore["d3"]

\* the text of the last save_draft call is no JSON document
DraftIsInvalid ==
    /\ ~IsObjectText(tool_call.draft_dict)
    /\ ~IsArrayText(tool_call.draft_dict)

\* C26: save_draft returns what it saved: whenever it returned a decoded
\* value, the file named by the time of the call exists and decoding its
\* content gives that same value; when the text is not valid JSON it returns
\* None, and a call that returns None leaves every file as it was.
C26_ReturnedIsSaved ==
    tool_call.fn = "save_draft" =>
        /\ tool_result.kind \in {"dict", "list"} =>
              /\ files[Timestamp(tool_call.at)].exists
              /\ JsonLoads(files[Timestamp(tool_call.at)].content) = tool_result
        /\ DraftIsInvalid <=> tool_result.kind = "None"

C26_NoneStep ==
    (tool_call'.fn = "save_draft" /\ tool_result'.kind = "None") => files' = files

C26_SaveDraft == [](C26_ReturnedIsSaved) /\ [][C26_NoneStep]_vars

\* the text repeats the key draft: the saved and returned dict holds the last value
C26_Witness ==
    /\ tool_call.fn = "save_draft"
    /\ Len(tool_call.draft_dict) = 9
    /\ tool_result.kind = "dict"
    /\ tool_result.items = <<[key |-> "draft", value |-> "b"]>>
    /\ files[Timestamp(tool_call.at)].content
           = <<Punct("{"), Dq("draft"), Punct(":"), Dq("b"), Punct("}")>>

\* C27: retrieve_relevant_literature uses all its queries: it returns
\* without raising also for an empty list, issues exactly one request per
\* query, in order, and its result holds the search response of every query.
C27_AllQueries ==
    tool_call.fn = "retrieve_relevant_literature" =>
        /\ tool_result.kind = "response"
        /\ Len(requests) = Len(tool_call.queries)
        /\ \A i \in 1..Len(tool_call.queries) :
              /\ i <= Len(requests)
              /\ requests[i].query = ReplaceSpaces(tool_call.queries[i])
              /\ tool_result.papers_for = ReplaceSpaces(tool_call.queries[i])

\* C31: a successful save_draft call writes a new file of its own: the step
\* of a call that returns a decoded value leaves every draft file that an
\* earlier successful call wrote (a file with content) exactly as it was,
\* also when both calls fall into the same clock second.
C31_NoOverwriteStep ==
    (tool_call'.fn = "save_draft" /\ tool_result'.kind \in {"dict", "list"}) =>
        \A n \in DOMAIN files :
            (files[n].exists /\ files[n].content # <<>>) => files'[n] = files[n]

C31_NeverOverwrites == [][C31_NoOverwriteStep]_vars

====
